---- MODULE Spec2Model ----
(***************************************************************************)
(* A model of the ops_tutorial repository:                                 *)
(*   - the notebook 5_advanced_customize_shooting.ipynb, executed in       *)
(*     order statement by statement, together with the command-line runs   *)
(*     its markdown cells tell the reader to make (Spec);                  *)
(*   - the move-scheme composition the notebook relies on, explored for    *)
(*     arbitrary sequences of append (SchemeSpec);                         *)
(*   - the CI workflow "Tests" (CISpec).                                   *)
(* The path-sampling library itself is not part of the repository: its     *)
(* operations are modelled by what the notebook's calls and its markdown   *)
(* cells say they do, and where the notebook says nothing the model leaves *)
(* the outcome open.                                                       *)
(***************************************************************************)
EXTENDS Integers, Sequences, FiniteSets, TLC

----------------------------------------------------------------------------
(* Networks, ensembles, strategies, move schemes                           *)

\* maxvals=[-0.60, -0.5, -0.4, -0.3, -0.2]: one TIS ensemble per interface
NInterfaces == 5

\* paths.TPSNetwork(initial_states=state_A, final_states=state_B): one ensemble
tps_network == "tps"

\* paths.MISTISNetwork([(state_A, interfaces, state_B)]).named("tis")
tis_network == "tis"

Networks == {tps_network, tis_network}

\* network.sampling_ensembles, indexed from 0 as in the notebook
sampling_ensembles(network) ==
    IF network = tis_network THEN 0 .. (NInterfaces - 1) ELSE {0}

\* the move groups: the three the notebook's strategies use by default and
\* one "different string" a strategy can be given as its group argument
AltGroup == "two_way_shooting"

Groups == {"shooting", "pathreversal", "repex", AltGroup}

ShootingGroups == {"shooting", AltGroup}

\* ensembles=None: the strategy makes movers for every sampling ensemble
AllEnsembles == 0 .. (NInterfaces - 1)

Strategy(kind, group, ens, selector) ==
    [kind |-> kind, group |-> group, ens |-> ens, selector |-> selector]

NoStrategy == Strategy("none", "none", {}, "none")

\* strategies.OneWayShootingStrategy(ensembles=..., engine=engine)
OneWayShootingStrategy(ens) ==
    Strategy("OneWayShooting", "shooting", ens, "uniform")

\* strategies.TwoWayShootingStrategy(modifier=..., engine=..., selector=..., group=...)
TwoWayShootingStrategy(selector, group) ==
    Strategy("TwoWayShooting", group, AllEnsembles, selector)

\* strategies.PathReversalStrategy()
PathReversalStrategy == Strategy("PathReversal", "pathreversal", AllEnsembles, "none")

\* strategies.NearestNeighborRepExStrategy()
NearestNeighborRepExStrategy ==
    Strategy("NearestNeighborRepEx", "repex", AllEnsembles, "none")

\* strategies.OrganizeByMoveGroupStrategy(): the global strategy, in no group
OrganizeByMoveGroupStrategy ==
    Strategy("OrganizeByMoveGroup", "global", AllEnsembles, "none")

\* paths.MoveScheme(network=...).named(name): a scheme with no strategy yet
MoveScheme(network, name) ==
    [name |-> name, network |-> network,
     strat |-> [g \in Groups |-> NoStrategy], organized |-> FALSE]

\* append1 with a fault: a strategy is added only to a group that has none
append1_keep(scheme, strategy) ==
    IF strategy.kind = "OrganizeByMoveGroup"
    THEN [scheme EXCEPT !.organized = TRUE]
    ELSE IF scheme.strat[strategy.group] = NoStrategy
         THEN [scheme EXCEPT !.strat[strategy.group] = strategy]
         ELSE scheme

\* append1 with a fault: every shooting strategy lands in group 'shooting'
append1_onegroup(scheme, strategy) ==
    IF strategy.kind = "OrganizeByMoveGroup"
    THEN [scheme EXCEPT !.organized = TRUE]
    ELSE IF strategy.group \in ShootingGroups
         THEN [scheme EXCEPT !.strat["shooting"] = strategy]
         ELSE [scheme EXCEPT !.strat[strategy.group] = strategy]

\* scheme.append(strategy): the strategy of the strategy's group is
\* overwritten; a strategy with another group string makes a second group
append1(scheme, strategy) ==
    IF strategy.kind = "OrganizeByMoveGroup"
    THEN [scheme EXCEPT !.organized = TRUE]
    ELSE [scheme EXCEPT !.strat[strategy.group] = strategy]

\* scheme.append([s1, s2, ...]): the strategies are appended in order
append(scheme, strategies) ==
    LET appended[k \in 0 .. Len(strategies)] ==
            IF k = 0 THEN scheme ELSE append1(appended[k - 1], strategies[k])
    IN  appended[Len(strategies)]

\* paths.OneWayShootingMoveScheme(network, engine): "all it does is pass the
\* network up to the superclass's initialization, and then append two move
\* strategies to itself"
OneWayShootingMoveScheme(network, name) ==
    append(MoveScheme(network, name),
           << OneWayShootingStrategy(AllEnsembles), OrganizeByMoveGroupStrategy >>)

\* the ensembles a strategy makes movers for
StrategyEnsembles(scheme, strategy) ==
    strategy.ens \cap sampling_ensembles(scheme.network)

\* the number of movers a group holds: one shooting or path-reversal mover per
\* ensemble, one replica-exchange mover per pair of neighbouring ensembles
NMovers(scheme, g) ==
    LET s == scheme.strat[g]
        n == Cardinality(StrategyEnsembles(scheme, s))
    IN  CASE s = NoStrategy -> 0
          [] s.kind = "NearestNeighborRepEx" -> IF n > 0 THEN n - 1 ELSE 0
          [] OTHER -> n

\* the groups of scheme.movers
MoverGroups(scheme) == {g \in Groups : NMovers(scheme, g) > 0}

TotalMovers(scheme) ==
    NMovers(scheme, "shooting") + NMovers(scheme, "pathreversal")
        + NMovers(scheme, "repex") + NMovers(scheme, AltGroup)

\* the per-mover weights OrganizeByMoveGroupStrategy gives the groups: the
\* notebook fixes only that two shooting groups are chosen 50/50 and that
\* path-reversal and replica-exchange movers are chosen at all
MaxWeight == 2

GroupWeights ==
    {w \in [Groups -> 1 .. MaxWeight] : w["shooting"] = w[AltGroup]}

\* the sum, over the movers of the scheme, of their weights
TotalWeight(scheme, w) ==
    w["shooting"] * NMovers(scheme, "shooting")
        + w["pathreversal"] * NMovers(scheme, "pathreversal")
        + w["repex"] * NMovers(scheme, "repex")
        + w[AltGroup] * NMovers(scheme, AltGroup)

\* scheme.choice_probability[mover] for a mover of group g, as the fraction
\* <<numerator, denominator>>: each step selects one mover of the scheme
choice_probability(scheme, g, w) == << w[g], TotalWeight(scheme, w) >>

\* n_steps_for_trials with a fault: the trials asked for are returned as they are
n_steps_for_trials_id(scheme, g, n_attempts, w) == << n_attempts, 1 >>

\* scheme.n_steps_for_trials(scheme.movers[g][0], n_attempts): the number of
\* trials divided by the mover's choice probability, as a fraction
n_steps_for_trials(scheme, g, n_attempts, w) ==
    << n_attempts * choice_probability(scheme, g, w)[2],
       choice_probability(scheme, g, w)[1] >>

\* scheme.movers[g][0] exists: the decision tree can be built (a global
\* strategy organizes the movers) and group g holds a mover
HasMover(scheme, g) == scheme.organized /\ NMovers(scheme, g) > 0

\* the scheme has a root mover: some step can be made with it
CanRun(scheme) == scheme.organized /\ TotalMovers(scheme) > 0

----------------------------------------------------------------------------
(* The notebook as a program: cells of statements                          *)

\* the files of the working directory
InputFile == "inputs/2_state_toy.nc"

SchemeName(i) ==
    CASE i = 0 -> "scheme_0" [] i = 1 -> "scheme_1" [] i = 2 -> "scheme_2"
      [] i = 3 -> "scheme_3" [] OTHER -> "scheme_4"

ResultFile(name) ==
    CASE name = "retis" -> "retis.nc"
      [] name = "scheme_0" -> "scheme_0.nc" [] name = "scheme_1" -> "scheme_1.nc"
      [] name = "scheme_2" -> "scheme_2.nc" [] name = "scheme_3" -> "scheme_3.nc"
      [] OTHER -> "scheme_4.nc"

EquilFile(name) ==
    CASE name = "retis" -> "retis_equil.nc"
      [] name = "scheme_0" -> "scheme_0_equil.nc"
      [] name = "scheme_1" -> "scheme_1_equil.nc"
      [] name = "scheme_2" -> "scheme_2_equil.nc"
      [] name = "scheme_3" -> "scheme_3_equil.nc"
      [] OTHER -> "scheme_4_equil.nc"

ParallelSchemes ==
    {"retis", "scheme_0", "scheme_1", "scheme_2", "scheme_3", "scheme_4"}

Files ==
    {InputFile, "shooting_setup.nc", "2_way.nc", "biased.nc", "parallel_setup.nc"}
        \cup {ResultFile(n) : n \in ParallelSchemes}
        \cup {EquilFile(n) : n \in ParallelSchemes}

\* the variables of the notebook that hold a move scheme
SchemeVars ==
    {"modified_scheme", "two_way_scheme", "biased_shooting_scheme", "biased_scheme",
     "retis_scheme", "scheme_retis",
     "scheme_0", "scheme_1", "scheme_2", "scheme_3", "scheme_4"}

\* the variables of the notebook that hold a paths.Storage
StorageVars ==
    {"storage", "shooting_setup", "std_two_way", "biased_two_way", "parallel_setup",
     "storage_0", "storage_1", "storage_2", "storage_3", "storage_4", "storage_retis"}

NoScheme == MoveScheme("none", "none")

\* a statement: the names it reads, the names it binds, and what it does
Stmt(line, kind, reads, binds) ==
    [line |-> line, kind |-> kind, reads |-> reads, binds |-> binds,
     var |-> "", obj |-> NoScheme, strategies |-> << >>,
     file |-> "", mode |-> "", name |-> "", out |-> "", bg |-> FALSE]

\* name = expression: an import, a def, a constructor the model keeps no state of
Bind(line, reads, binds) == Stmt(line, "bind", reads, binds)

\* an expression statement: a call, a print, a plot
Use(line, reads) == Stmt(line, "use", reads, {})

\* var = <a move scheme constructor>.named(...)
NewScheme(line, reads, var, obj) ==
    [Stmt(line, "new_scheme", reads, {var}) EXCEPT !.var = var, !.obj = obj]

\* var.append(strategies)
SchemeAppend(line, reads, var, strategies) ==
    [Stmt(line, "append", reads \cup {var}, {}) EXCEPT
        !.var = var, !.strategies = strategies]

\* _ = var.initial_conditions_from_trajectories(initial_conditions)
InitialConditions(line, var) ==
    [Stmt(line, "initial_conditions", {var, "initial_conditions"}, {"_"}) EXCEPT
        !.var = var]

\* var.n_steps_for_trials(var.movers['shooting'][0], 250)
NStepsForTrials(line, var) ==
    [Stmt(line, "n_steps_for_trials", {var}, {}) EXCEPT !.var = var]

\* var = paths.Storage(file, mode=mode)
Open(line, var, file, mode) ==
    [Stmt(line, "open", {"paths"}, {var}) EXCEPT
        !.var = var, !.file = file, !.mode = mode]

\* var.tags['initial_conditions'] = initial_conditions
Tag(line, var) ==
    [Stmt(line, "tag", {var, "initial_conditions"}, {}) EXCEPT !.var = var]

\* var.save(scheme)
Save(line, var, scheme) ==
    [Stmt(line, "save", {var, scheme}, {}) EXCEPT !.var = var, !.name = scheme]

\* var.close()
Close(line, var) == [Stmt(line, "close", {var}, {}) EXCEPT !.var = var]

\* scheme = var.schemes[name]
Load(line, scheme, var, name) ==
    [Stmt(line, "load", {var}, {scheme}) EXCEPT
        !.var = var, !.name = name, !.out = scheme]

\* x, y = get_shooting_points(var.steps[1:])
ShootingPoints(line, var, binds) ==
    [Stmt(line, "shooting_points", {"get_shooting_points", var}, binds) EXCEPT
        !.var = var]

\* $ openpathsampling pathsampling file -o out --scheme name -n ... [&]
PathSampling(line, file, out, name, bg) ==
    [Stmt(line, "pathsampling", {}, {}) EXCEPT
        !.file = file, !.out = out, !.name = name, !.bg = bg]

\* $ openpathsampling equilibrate file -o out --scheme name --extra-steps 50
Equilibrate(line, file, out, name) ==
    [Stmt(line, "equilibrate", {}, {}) EXCEPT
        !.file = file, !.out = out, !.name = name]

\* what %run toy_plot_helpers.py leaves in the namespace
toy_plot_helpers == {"ToyPlot", "np"}

Cell_imports ==
    << Bind(29, {}, {"plt"}), Bind(31, {}, {"paths"}), Bind(32, {}, {"strategies"}) >>

Cell_storage ==
    << Open(52, "storage", InputFile, "r"),
       Bind(53, {"storage"}, {"state_A"}),
       Bind(54, {"storage"}, {"state_B"}),
       Bind(55, {"storage"}, {"cv"}),
       Bind(56, {"storage"}, {"engine"}),
       Bind(57, {"storage"}, {"initial_conditions"}) >>

Cell_toy_plot ==
    << Bind(77, {}, toy_plot_helpers),
       Bind(79, {"engine"}, {"pes"}),
       Bind(81, {"ToyPlot"}, {"plot"}),
       Use(82, {"plot", "np"}),
       Use(83, {"plot", "pes"}),
       Bind(84, {"plot"}, {"fig"}) >>

Cell_tps_network ==
    << Bind(117, {"paths", "state_A", "state_B"}, {"tps_network"}) >>

Cell_modified_scheme ==
    << NewScheme(135, {"paths", "tps_network", "engine"}, "modified_scheme",
                 OneWayShootingMoveScheme(tps_network, "2_way_from_1_way")) >>

Cell_temperature == << Use(159, {"engine"}) >>

\* YOUR TURN: Set beta correctly (the assignment is commented out as shipped)
\* Cell_beta with a fault: the filled-in cell leaves the line commented out
Cell_beta_unset(p) == << >>

Cell_beta(p) == IF p THEN << Bind(169, {"engine"}, {"beta"}) >> ELSE << >>

\* the group argument TwoWayShootingStrategy is given in the notebook: none,
\* so the default
DefaultGroup == "shooting"

shooting_strategy == TwoWayShootingStrategy("uniform", DefaultGroup)

Cell_shooting_strategy ==
    << Bind(178, {"paths", "beta", "engine"}, {"modifier"}),
       Bind(179, {"strategies", "modifier", "engine"}, {"shooting_strategy"}) >>

Cell_append ==
    << SchemeAppend(195, {"shooting_strategy"}, "modified_scheme",
                    << shooting_strategy >>) >>

Cell_inspect ==
    << Bind(213, {}, {"inspect"}), Bind(214, {}, {"Code"}),
       Use(216, {"Code", "inspect", "paths"}) >>

Cell_two_way_scheme ==
    << NewScheme(232, {"paths", "tps_network"}, "two_way_scheme",
                 MoveScheme(tps_network, "2_way")),
       Bind(233, {"strategies"}, {"global_strategy"}),
       SchemeAppend(234, {"shooting_strategy", "global_strategy"}, "two_way_scheme",
                    << shooting_strategy, OrganizeByMoveGroupStrategy >>) >>

Cell_numpy ==
    << Bind(254, {}, {"np"}), Bind(255, {"np"}, {"xvals"}),
       Bind(257, {}, {"plot_gaussian_bias"}) >>

Cell_biased_shooting_scheme ==
    << NewScheme(270, {"paths", "tps_network"}, "biased_shooting_scheme",
                 MoveScheme(tps_network, "biased_shooting")) >>

Cell_gaussian_sel == << Bind(279, {"paths", "cv"}, {"gaussian_sel"}) >>

Cell_plot_gaussian_bias ==
    << Use(288, {"plot_gaussian_bias", "gaussian_sel", "np", "xvals", "plt"}) >>

Cell_help == << Use(297, {"paths"}) >>

\* YOUR TURN: a two-way shooting strategy with the Gaussian selector, appended
\* with the global_strategy to the biased_shooting_scheme
Cell_biased_strategy(p) ==
    IF p
    THEN << Bind(307, {"strategies", "modifier", "engine", "gaussian_sel"},
                 {"biased_strategy"}),
            SchemeAppend(309, {"biased_strategy", "global_strategy"},
                         "biased_shooting_scheme",
                         << TwoWayShootingStrategy("gaussian", DefaultGroup),
                            OrganizeByMoveGroupStrategy >>) >>
    ELSE << >>

Cell_check_two_way == << InitialConditions(325, "two_way_scheme") >>

Cell_check_biased == << InitialConditions(334, "biased_shooting_scheme") >>

Cell_shooting_setup == << Open(352, "shooting_setup", "shooting_setup.nc", "w") >>

\* Cell_save_shooting with a fault: the modified one-way scheme is saved
Cell_save_shooting_modified ==
    << Tag(362, "shooting_setup"),
       Save(363, "shooting_setup", "modified_scheme"),
       Save(364, "shooting_setup", "biased_shooting_scheme"),
       Close(365, "shooting_setup") >>

Cell_save_shooting ==
    << Tag(362, "shooting_setup"),
       Save(363, "shooting_setup", "two_way_scheme"),
       Save(364, "shooting_setup", "biased_shooting_scheme"),
       Close(365, "shooting_setup") >>

\* the two commands of the markdown cell "Now, use the OpenPathSampling
\* command line interface to run simulations with these"
Cli_shooting ==
    << PathSampling(375, "shooting_setup.nc", "2_way.nc", "2_way", FALSE),
       PathSampling(377, "shooting_setup.nc", "biased.nc", "biased_shooting", FALSE) >>

Cell_open_results ==
    << Open(398, "std_two_way", "2_way.nc", "r"),
       Open(399, "biased_two_way", "biased.nc", "r") >>

Cell_load_schemes ==
    << Load(408, "two_way_scheme", "std_two_way", "2_way"),
       Load(409, "biased_scheme", "biased_two_way", "biased_shooting") >>

Cell_summary_two_way == << Use(419, {"two_way_scheme", "std_two_way"}) >>

Cell_summary_biased == << Use(428, {"biased_scheme", "biased_two_way"}) >>

Cell_get_shooting_points == << Bind(446, {}, {"get_shooting_points"}) >>

Cell_shooting_points ==
    << ShootingPoints(460, "std_two_way", {"std_x", "std_y"}),
       ShootingPoints(461, "biased_two_way", {"biased_x", "biased_y"}) >>

Cell_scatter_std == << Use(477, {"plot"}), Use(478, {"plt", "std_x", "std_y"}) >>

Cell_scatter_biased ==
    << Use(487, {"plot"}), Use(488, {"plt", "biased_x", "biased_y", "std_x"}) >>

Cell_interfaces ==
    << Bind(510, {"paths", "cv"}, {"interfaces"}),
       Bind(512, {"paths", "state_A", "interfaces", "state_B"}, {"tis_network"}) >>

Cell_retis_scheme ==
    << NewScheme(522, {"paths", "tis_network"}, "retis_scheme",
                 MoveScheme(tis_network, "retis")),
       SchemeAppend(523, {"strategies", "engine"}, "retis_scheme",
                    << OneWayShootingStrategy(AllEnsembles), PathReversalStrategy,
                       NearestNeighborRepExStrategy, OrganizeByMoveGroupStrategy >>) >>

Cell_ens_0_strategy ==
    << Bind(544, {"strategies", "tis_network", "engine"}, {"ens_0_strategy"}) >>

Cell_schemes ==
    << NewScheme(563, {"paths", "tis_network"}, "scheme_0", MoveScheme(tis_network, "scheme_0")),
       NewScheme(564, {"paths", "tis_network"}, "scheme_1", MoveScheme(tis_network, "scheme_1")),
       NewScheme(565, {"paths", "tis_network"}, "scheme_2", MoveScheme(tis_network, "scheme_2")),
       NewScheme(566, {"paths", "tis_network"}, "scheme_3", MoveScheme(tis_network, "scheme_3")),
       NewScheme(567, {"paths", "tis_network"}, "scheme_4", MoveScheme(tis_network, "scheme_4")) >>

Cell_global_strategy == << Bind(576, {"strategies"}, {"global_strategy"}) >>

\* ens_strategy with a fault: the strategy shoots in every ensemble
ens_strategy_all(i) == OneWayShootingStrategy(AllEnsembles)

\* the strategy of scheme_i: a OneWayShootingStrategy for ensemble i alone
ens_strategy(i) == OneWayShootingStrategy({i})

\* YOUR TURN: a OneWayShootingStrategy for each ensemble; the global_strategy
\* and the appropriate shooting strategy appended to each scheme
Cell_ens_strategies(p) ==
    IF p
    THEN [i \in 1 .. NInterfaces |->
            SchemeAppend(587, {"strategies", "tis_network", "engine", "global_strategy"},
                         SchemeName(i - 1),
                         << OrganizeByMoveGroupStrategy, ens_strategy(i - 1) >>)]
    ELSE << >>

Cell_check_retis == << InitialConditions(607, "retis_scheme") >>

\* the five cells "_ = scheme_i.initial_conditions_from_trajectories(...)"
Cell_check(i) == << InitialConditions(616 + 9 * i, SchemeName(i)) >>

\* Cell_parallel_setup with a fault: the storage is not closed
Cell_parallel_setup_unclosed ==
    << Open(662, "parallel_setup", "parallel_setup.nc", "w"),
       Tag(663, "parallel_setup"),
       Save(664, "parallel_setup", "retis_scheme"),
       Save(665, "parallel_setup", "scheme_0"),
       Save(666, "parallel_setup", "scheme_1"),
       Save(667, "parallel_setup", "scheme_2"),
       Save(668, "parallel_setup", "scheme_3"),
       Save(669, "parallel_setup", "scheme_4") >>

Cell_parallel_setup ==
    << Open(662, "parallel_setup", "parallel_setup.nc", "w"),
       Tag(663, "parallel_setup"),
       Save(664, "parallel_setup", "retis_scheme"),
       Save(665, "parallel_setup", "scheme_0"),
       Save(666, "parallel_setup", "scheme_1"),
       Save(667, "parallel_setup", "scheme_2"),
       Save(668, "parallel_setup", "scheme_3"),
       Save(669, "parallel_setup", "scheme_4"),
       Close(670, "parallel_setup") >>

Cell_n_steps == << NStepsForTrials(688, "scheme_0") >>

\* YOUR TURN: Answer the question above (the steps 250 trials of the 0th
\* shooting mover of the RETIS scheme need)
Cell_n_steps_retis(p) == IF p THEN << NStepsForTrials(704, "retis_scheme") >> ELSE << >>

\* EquilOut with a fault: the file the text after the command names
EquilOut_text == "scheme_0_equil.nc"

\* the output file the equilibrate command names with -o
EquilOut == "retis_equil.nc"

\* "First, we equilibrate the initial condition ... Then you can run the
\* full simulation", the second command in the background
Cli_retis ==
    << Equilibrate(721, "parallel_setup.nc", EquilOut, "retis"),
       PathSampling(728, "retis_equil.nc", "retis.nc", "", TRUE) >>

\* Cli_scheme with a fault: every run is given the output file of the retis run
Cli_scheme_shared(i) ==
    << Equilibrate(737, "parallel_setup.nc", EquilFile(SchemeName(i)), SchemeName(i)),
       PathSampling(737, EquilFile(SchemeName(i)), ResultFile("retis"), "", TRUE) >>

\* "Do the same for scheme_0 ... scheme_4": the two commands, with the
\* scheme's name in place of retis
Cli_scheme(i) ==
    << Equilibrate(737, "parallel_setup.nc", EquilFile(SchemeName(i)), SchemeName(i)),
       PathSampling(737, EquilFile(SchemeName(i)), ResultFile(SchemeName(i)), "", TRUE) >>

Cli_schemes ==
    Cli_scheme(0) \o Cli_scheme(1) \o Cli_scheme(2) \o Cli_scheme(3) \o Cli_scheme(4)

Cell_import_tis == << Bind(753, {}, {"tis"}) >>

Cell_open_tis ==
    << Open(762, "storage_0", "scheme_0.nc", "r"),
       Open(763, "storage_1", "scheme_1.nc", "r"),
       Open(764, "storage_2", "scheme_2.nc", "r"),
       Open(765, "storage_3", "scheme_3.nc", "r"),
       Open(766, "storage_4", "scheme_4.nc", "r"),
       Open(767, "storage_retis", "retis.nc", "r") >>

Cell_load_tis ==
    << Load(776, "scheme_0", "storage_0", "scheme_0"),
       Load(777, "scheme_1", "storage_1", "scheme_1"),
       Load(778, "scheme_2", "storage_2", "scheme_2"),
       Load(779, "scheme_3", "storage_3", "scheme_3"),
       Load(780, "scheme_4", "storage_4", "scheme_4"),
       Load(781, "scheme_retis", "storage_retis", "retis") >>

Cell_summary_retis == << Use(800, {"scheme_retis", "storage_retis"}) >>

Cell_summary_retis_shooting == << Use(811, {"scheme_retis"}) >>

Cell_summary_retis_repex == << Use(822, {"scheme_retis"}) >>

\* the five cells "scheme_i.move_summary(storage_i.steps)"
Cell_summary(i) ==
    << Use(832 + 9 * i,
           {SchemeName(i),
            CASE i = 0 -> "storage_0" [] i = 1 -> "storage_1" [] i = 2 -> "storage_2"
              [] i = 3 -> "storage_3" [] OTHER -> "storage_4"}) >>

Cell_summary_0_shooting == << Use(877, {"scheme_0"}) >>

Cell_fake_flux ==
    << Bind(902, {"storage_retis"}, {"network"}),
       Bind(903, {"storage_retis"}, {"state_A"}),
       Bind(904, {"network"}, {"interface_0"}),
       Bind(905, {"tis", "state_A", "interface_0"}, {"fake_flux"}) >>

Cell_retis_analysis ==
    << Bind(923, {"tis", "network", "fake_flux", "storage_retis"}, {"retis_analysis"}) >>

Cell_weighted_trajectories ==
    << Bind(948, {}, {"weighted_trajectories"}),
       Bind(949, {"storage_0", "storage_1", "storage_2", "storage_3", "storage_4"},
            {"storages"}),
       Bind(950, {"storages", "network", "weighted_trajectories", "tis"},
            {"storage", "ensemble"}) >>

Cell_parallel_analysis ==
    << Bind(964, {"storage_0"}, {"state_A"}),
       Bind(965, {"network"}, {"interface_0"}),
       Bind(966, {"tis", "state_A", "interface_0"}, {"fake_flux"}),
       Bind(967, {"tis", "network", "fake_flux", "paths"}, {"parallel_analysis"}),
       Use(976, {"parallel_analysis", "fake_flux"}),
       Use(977, {"parallel_analysis", "weighted_trajectories"}) >>

Cell_plot_retis ==
    << Bind(999, {"network", "state_A", "state_B", "retis_analysis", "plt"},
            {"ensemble", "crossing", "label"}),
       Bind(1004, {"retis_analysis", "state_A", "state_B"}, {"tcp_AB"}),
       Use(1005, {"plt", "tcp_AB"}) >>

Cell_plot_parallel ==
    << Bind(1018, {"network", "state_A", "state_B", "parallel_analysis", "plt"},
            {"ensemble", "crossing", "label"}),
       Bind(1023, {"parallel_analysis", "state_A", "state_B"}, {"tcp_AB"}),
       Use(1024, {"plt", "tcp_AB"}) >>

\* Cells with a fault: the result databases are opened before the runs are made
Cells_results_first(p) ==
    << Cell_imports, Cell_storage, Cell_toy_plot, Cell_tps_network,
       Cell_modified_scheme, Cell_temperature, Cell_beta(p), Cell_shooting_strategy,
       Cell_append, Cell_inspect, Cell_two_way_scheme, Cell_numpy,
       Cell_biased_shooting_scheme, Cell_gaussian_sel, Cell_plot_gaussian_bias,
       Cell_help, Cell_biased_strategy(p), Cell_check_two_way, Cell_check_biased,
       Cell_shooting_setup, Cell_save_shooting, Cell_open_results,
       Cli_shooting, Cell_load_schemes, Cell_summary_two_way,
       Cell_summary_biased, Cell_get_shooting_points, Cell_shooting_points,
       Cell_scatter_std, Cell_scatter_biased,
       Cell_interfaces, Cell_retis_scheme, Cell_ens_0_strategy, Cell_schemes,
       Cell_global_strategy, Cell_ens_strategies(p),
       Cell_check_retis, Cell_check(0), Cell_check(1), Cell_check(2), Cell_check(3),
       Cell_check(4), Cell_parallel_setup, Cell_n_steps, Cell_n_steps_retis(p),
       Cli_retis, Cli_schemes,
       Cell_import_tis, Cell_open_tis, Cell_load_tis,
       Cell_summary_retis, Cell_summary_retis_shooting, Cell_summary_retis_repex,
       Cell_summary(0), Cell_summary(1), Cell_summary(2), Cell_summary(3),
       Cell_summary(4), Cell_summary_0_shooting,
       Cell_fake_flux, Cell_retis_analysis, Cell_weighted_trajectories,
       Cell_parallel_analysis, Cell_plot_retis, Cell_plot_parallel >>

\* the cells of the notebook, with the command-line runs at the markdown
\* cells that ask for them; p: the YOUR TURN cells have been filled in
Cells(p) ==
    << Cell_imports, Cell_storage, Cell_toy_plot, Cell_tps_network,
       Cell_modified_scheme, Cell_temperature, Cell_beta(p), Cell_shooting_strategy,
       Cell_append, Cell_inspect, Cell_two_way_scheme, Cell_numpy,
       Cell_biased_shooting_scheme, Cell_gaussian_sel, Cell_plot_gaussian_bias,
       Cell_help, Cell_biased_strategy(p), Cell_check_two_way, Cell_check_biased,
       Cell_shooting_setup, Cell_save_shooting, Cli_shooting,
       Cell_open_results, Cell_load_schemes, Cell_summary_two_way,
       Cell_summary_biased, Cell_get_shooting_points, Cell_shooting_points,
       Cell_scatter_std, Cell_scatter_biased,
       Cell_interfaces, Cell_retis_scheme, Cell_ens_0_strategy, Cell_schemes,
       Cell_global_strategy, Cell_ens_strategies(p),
       Cell_check_retis, Cell_check(0), Cell_check(1), Cell_check(2), Cell_check(3),
       Cell_check(4), Cell_parallel_setup, Cell_n_steps, Cell_n_steps_retis(p),
       Cli_retis, Cli_schemes,
       Cell_import_tis, Cell_open_tis, Cell_load_tis,
       Cell_summary_retis, Cell_summary_retis_shooting, Cell_summary_retis_repex,
       Cell_summary(0), Cell_summary(1), Cell_summary(2), Cell_summary(3),
       Cell_summary(4), Cell_summary_0_shooting,
       Cell_fake_flux, Cell_retis_analysis, Cell_weighted_trajectories,
       Cell_parallel_analysis, Cell_plot_retis, Cell_plot_parallel >>

\* the statements of the cells in order, each with the number of its cell
Flatten(cells) ==
    LET upto[c \in 0 .. Len(cells)] ==
            IF c = 0 THEN << >>
            ELSE upto[c - 1] \o [k \in 1 .. Len(cells[c]) |->
                                    [stmt |-> cells[c][k], cell |-> c]]
    IN  upto[Len(cells)]

ProgramPatched == Flatten(Cells(TRUE))

ProgramShipped == Flatten(Cells(FALSE))

----------------------------------------------------------------------------
(* The state of an execution of the notebook                               *)

\* the steps a command-line run is asked for (-n 500, -n 250, -n $NSTEPS),
\* scaled down: the reader picks any number from 1 to MaxSteps
MaxSteps == 2

\* the steps a background run makes in the model
MaxBgSteps == 1

\* --extra-steps 50
ExtraSteps == 50

\* n_steps_for_trials(..., 250)
NTrials == 250

VARIABLES
    patched,      \* the YOUR TURN cells have been filled in
    program,      \* the statements of the notebook the kernel is given
    pc,           \* the index in the program of the next statement
    bound,        \* the names bound in the kernel's namespace
    raised,       \* the source lines of the statements that raised
    obj,          \* the move scheme each scheme variable is bound to
    handles,      \* the paths.Storage each storage variable is bound to
    files,        \* the storage files of the working directory
    writers,      \* who has written each file
    cli,          \* the command-line runs
    asked,        \* the schemes n_steps_for_trials was evaluated on
    points,       \* the number of shooting points get_shooting_points returned
    ms,           \* SchemeSpec: a move scheme under construction
    ms_prev,      \* SchemeSpec: the scheme before the last append
    ms_last,      \* SchemeSpec: the strategy appended last
    ci,           \* CISpec: the state of the workflow run
    samples       \* CrossingSpec: the paths sampled in each TIS ensemble

nbVars == << patched, program, pc, bound, raised, obj, handles, files, writers, cli,
             asked, points >>

msVars == << ms, ms_prev, ms_last >>

vars == << patched, program, pc, bound, raised, obj, handles, files, writers, cli,
           asked, points, ms, ms_prev, ms_last, ci, samples >>

Finished == pc > Len(program)

Cur == program[pc].stmt

\* the first statement after k that is not of cell c
RECURSIVE After(_, _, _)
After(stmts, k, c) ==
    IF k > Len(stmts) \/ stmts[k].cell > c THEN k ELSE After(stmts, k + 1, c)

\* the first statement of the next cell that has one
NextCell == After(program, pc, program[pc].cell)

NoFile ==
    [exists |-> FALSE, schemes |-> {}, tagged |-> FALSE, steps |-> << >>,
     decorrelated |-> FALSE, extra |-> 0]

\* a storage file just created by opening it with mode='w'
NewFile == [NoFile EXCEPT !.exists = TRUE]

\* inputs/2_state_toy.nc: the pre-built database with the volumes, the
\* collective variable, the engine and the initial_conditions tag
InputDatabase == [NewFile EXCEPT !.tagged = TRUE]

NoHandle == [file |-> "", mode |-> "", state |-> "none"]

\* a command-line run is named by its command
ProcId(s) == << s.kind, s.file, s.name >>

CliStmts(stmts) ==
    {stmts[k].stmt : k \in {j \in 1 .. Len(stmts) :
                               stmts[j].stmt.kind \in {"pathsampling", "equilibrate"}}}

Procs == {ProcId(s) : s \in CliStmts(ProgramPatched)}

NoProc == [state |-> "idle", out |-> "", scheme |-> NoScheme, n |-> 0, wrote |-> << >>]

\* the schemes of a file with the given name
SchemesNamed(f, name) == {s \in files[f].schemes : s.name = name}

\* the scheme a run on file f uses: the one --scheme names, or without
\* --scheme the only scheme of the file
Selected(f, name) ==
    IF name # "" THEN SchemesNamed(f, name)
    ELSE IF Cardinality(files[f].schemes) = 1 THEN files[f].schemes ELSE {}

\* the command fails before it writes anything: no input file, no initial
\* conditions in it, no scheme to select, or a scheme that can make no move
CliFails(s) ==
    \/ ~ files[s.file].exists
    \/ ~ files[s.file].tagged
    \/ Selected(s.file, s.name) = {}
    \/ \E sch \in Selected(s.file, s.name) : ~ CanRun(sch)

TheScheme(s) == CHOOSE sch \in Selected(s.file, s.name) : TRUE

\* the statement raises: a name it reads is unbound (NameError), or the
\* library call it makes cannot be made
Raises(s) ==
    \/ ~ (s.reads \subseteq bound)
    \/ /\ s.kind = "open" /\ s.mode = "r" /\ ~ files[s.file].exists
    \/ /\ s.kind \in {"tag", "save"}
       /\ ~ (handles[s.var].state = "open" /\ handles[s.var].mode = "w")
    \/ /\ s.kind \in {"load", "shooting_points"}
       /\ handles[s.var].state # "open"
    \/ /\ s.kind = "load"
       /\ handles[s.var].state = "open"
       /\ SchemesNamed(handles[s.var].file, s.name) = {}
    \/ /\ s.kind = "shooting_points"
       /\ handles[s.var].state = "open"
       /\ LET steps == files[handles[s.var].file].steps IN
          ~ (Len(steps) >= 2 /\ \A k \in 2 .. Len(steps) : steps[k] \in ShootingGroups)
    \/ /\ s.kind = "initial_conditions" /\ ~ CanRun(obj[s.var])
    \/ /\ s.kind = "n_steps_for_trials" /\ ~ HasMover(obj[s.var], "shooting")

----------------------------------------------------------------------------
(* Executing the notebook                                                  *)

InitNotebook ==
    /\ program = IF patched THEN ProgramPatched ELSE ProgramShipped
    /\ pc = 1
    /\ bound = {}
    /\ raised = {}
    /\ obj = [v \in SchemeVars |-> NoScheme]
    /\ handles = [v \in StorageVars |-> NoHandle]
    /\ files = [f \in Files |-> IF f = InputFile THEN InputDatabase ELSE NoFile]
    /\ writers = [f \in Files |-> {}]
    /\ cli = [p \in Procs |-> NoProc]
    /\ asked = [v \in {"scheme_0", "retis_scheme"} |-> NoScheme]
    /\ points = [v \in {"std_two_way", "biased_two_way"} |-> -1]

InitScheme ==
    /\ ms = NoScheme
    /\ ms_prev = NoScheme
    /\ ms_last = NoStrategy

InitCI ==
    ci = [step |-> 1, ran |-> {}, failed |-> 0, nb |-> 1, cell |-> 1,
          tested |-> {}, errors |-> {}, conclusion |-> "running"]

\* no path has been sampled
InitSamples == samples = [i \in AllEnsembles |-> << >>]

Init == patched \in BOOLEAN /\ InitNotebook /\ InitScheme /\ InitCI /\ InitSamples

\* the statement at pc is of the given kind and does not raise
At(kind) == ~ Finished /\ Cur.kind = kind /\ ~ Raises(Cur)

\* the statement is done: its names are bound, the next statement is next
Done ==
    /\ pc' = pc + 1
    /\ bound' = bound \cup Cur.binds
    /\ UNCHANGED << patched, program, raised, ms, ms_prev, ms_last, ci, samples >>

ExecBind ==
    /\ At("bind") /\ Done
    /\ UNCHANGED << obj, handles, files, writers, cli, asked, points >>

ExecUse ==
    /\ At("use") /\ Done
    /\ UNCHANGED << obj, handles, files, writers, cli, asked, points >>

ExecNewScheme ==
    /\ At("new_scheme") /\ Done
    /\ obj' = [obj EXCEPT ![Cur.var] = Cur.obj]
    /\ UNCHANGED << handles, files, writers, cli, asked, points >>

ExecAppend ==
    /\ At("append") /\ Done
    /\ obj' = [obj EXCEPT ![Cur.var] = append(@, Cur.strategies)]
    /\ UNCHANGED << handles, files, writers, cli, asked, points >>

ExecInitialConditions ==
    /\ At("initial_conditions") /\ Done
    /\ UNCHANGED << obj, handles, files, writers, cli, asked, points >>

ExecNStepsForTrials ==
    /\ At("n_steps_for_trials") /\ Done
    /\ asked' = [asked EXCEPT ![Cur.var] = obj[Cur.var]]
    /\ UNCHANGED << obj, handles, files, writers, cli, points >>

\* paths.Storage(file, mode): mode='w' creates the file anew
ExecOpen ==
    /\ At("open") /\ Done
    /\ handles' = [handles EXCEPT
                      ![Cur.var] = [file |-> Cur.file, mode |-> Cur.mode, state |-> "open"]]
    /\ IF Cur.mode = "w"
       THEN /\ files' = [files EXCEPT ![Cur.file] = NewFile]
            /\ writers' = [writers EXCEPT ![Cur.file] = @ \cup {<< "notebook" >>}]
       ELSE UNCHANGED << files, writers >>
    /\ UNCHANGED << obj, cli, asked, points >>

ExecTag ==
    /\ At("tag") /\ Done
    /\ files' = [files EXCEPT ![handles[Cur.var].file].tagged = TRUE]
    /\ UNCHANGED << obj, handles, writers, cli, asked, points >>

ExecSave ==
    /\ At("save") /\ Done
    /\ files' = [files EXCEPT ![handles[Cur.var].file].schemes = @ \cup {obj[Cur.name]}]
    /\ UNCHANGED << obj, handles, writers, cli, asked, points >>

ExecClose ==
    /\ At("close") /\ Done
    /\ handles' = [handles EXCEPT ![Cur.var].state = "closed"]
    /\ UNCHANGED << obj, files, writers, cli, asked, points >>

ExecLoad ==
    /\ At("load") /\ Done
    /\ obj' = [obj EXCEPT
                  ![Cur.out] = CHOOSE sch \in SchemesNamed(handles[Cur.var].file, Cur.name) : TRUE]
    /\ UNCHANGED << handles, files, writers, cli, asked, points >>

ExecShootingPoints ==
    /\ At("shooting_points") /\ Done
    /\ points' = [points EXCEPT ![Cur.var] = Len(files[handles[Cur.var].file].steps) - 1]
    /\ UNCHANGED << obj, handles, files, writers, cli, asked >>

\* the statement raises: the rest of its cell is not executed
ExecRaise ==
    /\ ~ Finished /\ Raises(Cur)
    /\ raised' = raised \cup {Cur.line}
    /\ pc' = NextCell
    /\ UNCHANGED << patched, program, bound, obj, handles, files, writers, cli, asked, points,
                   ms, ms_prev, ms_last, ci, samples >>

\* StartedFile with a fault: step 0 is not saved
StartedFile_nothing(sch) == [NewFile EXCEPT !.schemes = {sch}, !.tagged = TRUE]

\* what a pathsampling run writes first: the scheme it runs and step 0, the
\* initial conditions
StartedFile(sch) ==
    [NewFile EXCEPT !.schemes = {sch}, !.tagged = TRUE, !.steps = << "initial_conditions" >>]

\* a command that fails writes nothing
CliFailure ==
    /\ ~ Finished /\ Cur.kind \in {"pathsampling", "equilibrate"} /\ CliFails(Cur)
    /\ cli' = [cli EXCEPT ![ProcId(Cur)] = [NoProc EXCEPT !.state = "failed", !.out = Cur.out]]
    /\ pc' = pc + 1
    /\ UNCHANGED << patched, program, bound, raised, obj, handles, files, writers, asked, points,
                   ms, ms_prev, ms_last, ci, samples >>

\* $ openpathsampling pathsampling ... -n n, in the foreground: the reader
\* goes on when the n steps are made, each by a mover of the scheme
RunPathSampling ==
    /\ ~ Finished /\ Cur.kind = "pathsampling" /\ ~ Cur.bg /\ ~ CliFails(Cur)
    /\ \E n \in 1 .. MaxSteps :
         \E moves \in [1 .. n -> MoverGroups(TheScheme(Cur))] :
            LET steps == << "initial_conditions" >> \o moves IN
            /\ files' = [files EXCEPT ![Cur.out] = [StartedFile(TheScheme(Cur)) EXCEPT !.steps = steps]]
            /\ cli' = [cli EXCEPT ![ProcId(Cur)] =
                          [state |-> "done", out |-> Cur.out, scheme |-> TheScheme(Cur),
                           n |-> n, wrote |-> steps]]
    /\ writers' = [writers EXCEPT ![Cur.out] = @ \cup {ProcId(Cur)}]
    /\ pc' = pc + 1
    /\ UNCHANGED << patched, program, bound, raised, obj, handles, asked, points,
                   ms, ms_prev, ms_last, ci, samples >>

\* $ openpathsampling pathsampling ... &: the run is started and the reader
\* goes on at once
LaunchPathSampling ==
    /\ ~ Finished /\ Cur.kind = "pathsampling" /\ Cur.bg /\ ~ CliFails(Cur)
    /\ \E n \in 1 .. MaxBgSteps :
         cli' = [cli EXCEPT ![ProcId(Cur)] =
                    [state |-> "running", out |-> Cur.out, scheme |-> TheScheme(Cur),
                     n |-> n, wrote |-> << "initial_conditions" >>]]
    /\ files' = [files EXCEPT ![Cur.out] = StartedFile(TheScheme(Cur))]
    /\ writers' = [writers EXCEPT ![Cur.out] = @ \cup {ProcId(Cur)}]
    /\ pc' = pc + 1
    /\ UNCHANGED << patched, program, bound, raised, obj, handles, asked, points,
                   ms, ms_prev, ms_last, ci, samples >>

\* one Monte Carlo step of a background run: one mover of the scheme is
\* selected and its step is saved in the run's output file
CliStep(p) ==
    /\ cli[p].state = "running"
    /\ \E g \in MoverGroups(cli[p].scheme) :
         /\ files' = [files EXCEPT ![cli[p].out].steps = Append(@, g)]
         /\ cli' = [cli EXCEPT
                       ![p].wrote = Append(@, g),
                       ![p].state = IF Len(cli[p].wrote) = cli[p].n THEN "done" ELSE "running"]
    /\ UNCHANGED << patched, program, pc, bound, raised, obj, handles, writers, asked, points,
                   ms, ms_prev, ms_last, ci, samples >>

\* RunEquilibrate with a fault: every scheme of the input file is copied to
\* the output file
RunEquilibrate_all ==
    /\ ~ Finished /\ Cur.kind = "equilibrate" /\ ~ CliFails(Cur)
    /\ files' = [files EXCEPT ![Cur.out] =
                    [NewFile EXCEPT !.schemes = files[Cur.file].schemes, !.tagged = TRUE,
                                    !.decorrelated = TRUE, !.extra = ExtraSteps]]
    /\ cli' = [cli EXCEPT ![ProcId(Cur)] =
                  [state |-> "done", out |-> Cur.out, scheme |-> TheScheme(Cur),
                   n |-> ExtraSteps, wrote |-> << >>]]
    /\ writers' = [writers EXCEPT ![Cur.out] = @ \cup {ProcId(Cur)}]
    /\ pc' = pc + 1
    /\ UNCHANGED << patched, program, bound, raised, obj, handles, asked, points,
                   ms, ms_prev, ms_last, ci, samples >>

\* $ openpathsampling equilibrate ... --extra-steps 50: runs until the first
\* decorrelated path, then the extra steps; saves the scheme it ran and the
\* equilibrated initial conditions
RunEquilibrate ==
    /\ ~ Finished /\ Cur.kind = "equilibrate" /\ ~ CliFails(Cur)
    /\ files' = [files EXCEPT ![Cur.out] =
                    [NewFile EXCEPT !.schemes = {TheScheme(Cur)}, !.tagged = TRUE,
                                    !.decorrelated = TRUE, !.extra = ExtraSteps]]
    /\ cli' = [cli EXCEPT ![ProcId(Cur)] =
                  [state |-> "done", out |-> Cur.out, scheme |-> TheScheme(Cur),
                   n |-> ExtraSteps, wrote |-> << >>]]
    /\ writers' = [writers EXCEPT ![Cur.out] = @ \cup {ProcId(Cur)}]
    /\ pc' = pc + 1
    /\ UNCHANGED << patched, program, bound, raised, obj, handles, asked, points,
                   ms, ms_prev, ms_last, ci, samples >>

\* one step of a background run that is running
BackgroundStep == \E p \in DOMAIN cli : CliStep(p)

Next ==
    \/ ExecBind \/ ExecUse \/ ExecNewScheme \/ ExecAppend
    \/ ExecInitialConditions \/ ExecNStepsForTrials
    \/ ExecOpen \/ ExecTag \/ ExecSave \/ ExecClose \/ ExecLoad
    \/ ExecShootingPoints \/ ExecRaise
    \/ CliFailure \/ RunPathSampling \/ LaunchPathSampling \/ RunEquilibrate
    \/ BackgroundStep

Spec == Init /\ [][Next]_vars

----------------------------------------------------------------------------
(* Move schemes composed by arbitrary sequences of append                  *)

\* the strategies appended: those the notebook builds, and the two-way
\* shooting strategy given the other group string
Strategies ==
    {OneWayShootingStrategy(AllEnsembles), ens_strategy(0), PathReversalStrategy,
     NearestNeighborRepExStrategy, OrganizeByMoveGroupStrategy}
        \cup {TwoWayShootingStrategy(selector, g) :
                 selector \in {"uniform", "gaussian"}, g \in ShootingGroups}

InitSchemeSpec ==
    patched = TRUE /\ InitNotebook /\ InitScheme /\ InitCI /\ InitSamples

\* ms = paths.MoveScheme(network)
MsMoveScheme ==
    /\ ms = NoScheme
    /\ \E network \in Networks : ms' = MoveScheme(network, "ms")
    /\ ms_prev' = NoScheme
    /\ ms_last' = NoStrategy
    /\ UNCHANGED << nbVars, ci, samples >>

\* ms = paths.OneWayShootingMoveScheme(network, engine=engine)
MsOneWayShootingMoveScheme ==
    /\ ms = NoScheme
    /\ \E network \in Networks : ms' = OneWayShootingMoveScheme(network, "ms")
    /\ ms_prev' = NoScheme
    /\ ms_last' = NoStrategy
    /\ UNCHANGED << nbVars, ci, samples >>

\* ms.append(strategy)
MsAppend ==
    /\ ms # NoScheme
    /\ \E strategy \in Strategies :
         /\ ms' = append(ms, << strategy >>)
         /\ ms_last' = strategy
    /\ ms_prev' = ms
    /\ UNCHANGED << nbVars, ci, samples >>

NextScheme == MsMoveScheme \/ MsOneWayShootingMoveScheme \/ MsAppend

SchemeSpec == InitSchemeSpec /\ [][NextScheme]_vars

----------------------------------------------------------------------------
(* The workflow "Tests"                                                    *)

\* CISteps with a fault: the tests are run before the answers are patched in
CISteps_tests_first ==
    << "actions/checkout", "actions/setup-python", "conda-incubator/setup-miniconda",
       "Install testing tools", "Conda info", "Run tests", "Patch answers",
       "Download data" >>

\* jobs.tests.steps, each by its name or by the action it uses
CISteps ==
    << "actions/checkout", "actions/setup-python", "conda-incubator/setup-miniconda",
       "Install testing tools", "Conda info", "Patch answers", "Download data",
       "Run tests" >>

StepIndex(name) == CHOOSE k \in 1 .. Len(CISteps) : CISteps[k] = name

\* the notebooks on pytest's command line
Notebooks ==
    << "1_tps_sampling_tutorial.ipynb", "2_tps_analysis_tutorial.ipynb",
       "4_mstis_sampling_tutorial.ipynb" >>

\* the code cells of a notebook pytest collects, in the model
MaxCells == 3

\* ExitCode with a fault: pytest exits with 0 whatever the cells did
ExitCode_zero(errors) == 0

\* pytest's exit status: 0 when every collected cell passed
ExitCode(errors) == IF errors = {} THEN 0 ELSE 1

InitCISpec ==
    patched = TRUE /\ InitNotebook /\ InitScheme /\ InitCI /\ InitSamples

CIRunning == ci.conclusion = "running" /\ ci.step <= Len(CISteps)

\* a step other than "Run tests" ends with status 0: the next step is next
StepSucceeds ==
    /\ CIRunning /\ CISteps[ci.step] # "Run tests"
    /\ ci' = [ci EXCEPT !.ran = @ \cup {ci.step}, !.step = @ + 1]
    /\ UNCHANGED << nbVars, msVars, samples >>

\* a step other than "Run tests" ends with another status: no step has
\* continue-on-error or an if: condition, so the job fails and the steps
\* after it are skipped
StepFails ==
    /\ CIRunning /\ CISteps[ci.step] # "Run tests"
    /\ ci' = [ci EXCEPT !.ran = @ \cup {ci.step}, !.failed = ci.step,
                        !.conclusion = "failure"]
    /\ UNCHANGED << nbVars, msVars, samples >>

\* pytest --nbval-lax executes the next cell of the notebooks it was given;
\* the cell fails when it raises (its output is not compared)
TestCell ==
    /\ CIRunning /\ CISteps[ci.step] = "Run tests"
    /\ ci.nb <= Len(Notebooks)
    /\ \E raises \in BOOLEAN :
         ci' = [ci EXCEPT
                   !.ran = @ \cup {ci.step},
                   !.tested = @ \cup {<< Notebooks[ci.nb], ci.cell >>},
                   !.errors = IF raises THEN @ \cup {<< Notebooks[ci.nb], ci.cell >>} ELSE @,
                   !.cell = IF ci.cell = MaxCells THEN 1 ELSE @ + 1,
                   !.nb = IF ci.cell = MaxCells THEN @ + 1 ELSE @]
    /\ UNCHANGED << nbVars, msVars, samples >>

\* pytest exits: the status of the step "Run tests" is pytest's
PytestExit ==
    /\ CIRunning /\ CISteps[ci.step] = "Run tests"
    /\ ci.nb > Len(Notebooks)
    /\ IF ExitCode(ci.errors) = 0
       THEN ci' = [ci EXCEPT !.ran = @ \cup {ci.step}, !.step = @ + 1]
       ELSE ci' = [ci EXCEPT !.ran = @ \cup {ci.step}, !.failed = ci.step,
                             !.conclusion = "failure"]
    /\ UNCHANGED << nbVars, msVars, samples >>

\* every step has succeeded
JobSucceeds ==
    /\ ci.conclusion = "running" /\ ci.step > Len(CISteps)
    /\ ci' = [ci EXCEPT !.conclusion = "success"]
    /\ UNCHANGED << nbVars, msVars, samples >>

NextCI == StepSucceeds \/ StepFails \/ TestCell \/ PytestExit \/ JobSucceeds

CISpec == InitCISpec /\ [][NextCI]_vars

----------------------------------------------------------------------------
(* Crossing probabilities of the TIS ensembles                             *)

\* the values of the order parameter, on a grid: 0 lies in state A, k is the
\* k-th value of maxvals, and NInterfaces + 1 lies beyond the outermost
\* interface
Lambdas == 0 .. (NInterfaces + 1)

\* ensemble.lambda_i: the interface value of the ensemble tis_network.sampling_ensembles[i]
lambda_i(i) == i + 1

\* InEnsemble with a fault: every path is accepted
InEnsemble_any(i, max_lambda) == max_lambda \in Lambdas

\* a path, given by the maximum of the order parameter along it, is a path of
\* the TIS ensemble i: it leaves the volume the interface bounds
InEnsemble(i, max_lambda) == max_lambda > lambda_i(i)

\* crossing_probability with a fault: the paths whose maximum is the value
crossing_probability_at(sample, x) ==
    << Cardinality({k \in 1 .. Len(sample) : sample[k] = x}), Len(sample) >>

\* retis_analysis.crossing_probability(ensemble) at x, as the fraction
\* <<numerator, denominator>>: "the fraction of paths in that ensemble that
\* reach at least the given value"
crossing_probability(sample, x) ==
    << Cardinality({k \in 1 .. Len(sample) : sample[k] >= x}), Len(sample) >>

\* the paths sampled beyond the initial conditions, in the model
MaxPaths == 2

\* the analysed storages hold for every ensemble the path of the initial
\* conditions, a path of that ensemble
InitCrossingSpec ==
    /\ patched = TRUE /\ InitNotebook /\ InitScheme /\ InitCI
    /\ samples \in [AllEnsembles -> {<< m >> : m \in Lambdas}]
    /\ \A i \in AllEnsembles : InEnsemble(i, samples[i][1])

\* a step of a run saves a path of ensemble i
SamplePath(i, max_lambda) ==
    LET paths[k \in -1 .. (NInterfaces - 1)] ==
            IF k = -1 THEN 0 ELSE paths[k - 1] + Len(samples[k])
    IN  /\ paths[NInterfaces - 1] < NInterfaces + MaxPaths
        /\ InEnsemble(i, max_lambda)
        /\ samples' = [samples EXCEPT ![i] = Append(@, max_lambda)]
        /\ UNCHANGED << nbVars, msVars, ci >>

NextCrossing == \E i \in AllEnsembles : \E max_lambda \in Lambdas : SamplePath(i, max_lambda)

CrossingSpec == InitCrossingSpec /\ [][NextCrossing]_vars

----------------------------------------------------------------------------
(* Properties                                                              *)

\* the databases the command-line runs produce and the notebook analyses
ResultFiles == {"2_way.nc", "biased.nc"} \cup {ResultFile(n) : n \in ParallelSchemes}

\* the files the notebook writes for the command line
SetupFiles == {"shooting_setup.nc", "parallel_setup.nc"}

\* the names of the schemes a file holds
Names(f) == {sch.name : sch \in files[f].schemes}

Started(p) == cli[p].state \in {"running", "done"}

\* the statements of the notebook that open a database for reading
OpenStmts ==
    {program[k].stmt : k \in {j \in 1 .. Len(program) :
                                /\ program[j].stmt.kind = "open"
                                /\ program[j].stmt.mode = "r"}}

NoSharedOutput ==
    /\ \A f \in Files : Cardinality(writers[f]) <= 1
    /\ \A f \in SetupFiles : writers[f] \subseteq {<< "notebook" >>}
    /\ \A p \in DOMAIN cli :
          Started(p) =>
             /\ writers[cli[p].out] = {p}
             /\ files[cli[p].out].schemes = {cli[p].scheme}
             /\ files[cli[p].out].steps = cli[p].wrote
    /\ \A p, q \in DOMAIN cli :
          (p # q /\ cli[p].state # "idle" /\ cli[q].state # "idle") => cli[p].out # cli[q].out

\* C3 witness: the six runs of the parallel section have been launched; some
\* are still running while another has made its steps
NoSharedOutputWitness ==
    /\ Cardinality({p \in DOMAIN cli : p[1] = "pathsampling" /\ p[3] = "" /\ Started(p)})
          = NInterfaces + 1
    /\ Cardinality({p \in DOMAIN cli : cli[p].state = "running"}) >= 2
    /\ \E p \in DOMAIN cli :
          p[1] = "pathsampling" /\ p[3] = "" /\ cli[p].state = "done" /\ Len(cli[p].wrote) > 1

\* C4: the steps of the job are run in the order of the workflow, each only
\* after every step before it has succeeded; the order is checkout, the two
\* set-up actions, "Install testing tools", "Conda info", "Patch answers",
\* "Download data", "Run tests"; and pytest executes a cell only after the
\* steps "Patch answers" and "Download data" have run and succeeded.
StepsInOrder ==
    /\ \A k \in ci.ran : \A j \in 1 .. (k - 1) : j \in ci.ran /\ j # ci.failed
    /\ ci.ran \subseteq 1 .. ci.step
    /\ StepIndex("actions/checkout") < StepIndex("actions/setup-python")
    /\ StepIndex("actions/setup-python") < StepIndex("conda-incubator/setup-miniconda")
    /\ StepIndex("conda-incubator/setup-miniconda") < StepIndex("Install testing tools")
    /\ StepIndex("Install testing tools") < StepIndex("Conda info")
    /\ StepIndex("Conda info") < StepIndex("Patch answers")
    /\ StepIndex("Patch answers") < StepIndex("Download data")
    /\ StepIndex("Download data") < StepIndex("Run tests")
    /\ ci.tested # {} =>
          /\ {StepIndex("Patch answers"), StepIndex("Download data")} \subseteq ci.ran
          /\ ci.failed \notin {StepIndex("Patch answers"), StepIndex("Download data")}

\* C4 witness: pytest has executed cells and the job is still running
StepsInOrderWitness == ci.tested # {} /\ ci.conclusion = "running"

\* C5: the job succeeds only if every step ran and pytest executed every cell
\* of exactly the notebooks 1, 2 and 4 without any of them raising; once a
\* cell has raised the job never gets past "Run tests" and never succeeds; and
\* when a step before "Run tests" fails the job fails and pytest executes
\* nothing.
PassOnlyWithoutRaising ==
    /\ ci.conclusion = "success" =>
          /\ ci.errors = {}
          /\ ci.ran = 1 .. Len(CISteps)
          /\ ci.tested =
                {"1_tps_sampling_tutorial.ipynb", "2_tps_analysis_tutorial.ipynb",
                 "4_mstis_sampling_tutorial.ipynb"} \X (1 .. MaxCells)
    /\ ci.errors # {} => ci.conclusion # "success" /\ ci.step <= Len(CISteps)
    /\ (ci.failed # 0 /\ ci.failed < StepIndex("Run tests")) =>
          ci.conclusion = "failure" /\ ci.tested = {}
    /\ ci.failed # 0 => ci.conclusion = "failure"

\* C5 witness: the job has failed because a cell raised
PassOnlyWithoutRaisingWitness ==
    /\ ci.conclusion = "failure"
    /\ ci.errors # {}
    /\ ci.failed = StepIndex("Run tests")

\* C6: when modified_scheme.append(shooting_strategy) is executed, the scheme
\* is the one-way shooting scheme; afterwards its group 'shooting' holds the
\* two-way strategy, 'shooting' is its only mover group, no group holds a
\* one-way shooting strategy, and every other group and the global strategy
\* are as they were.
AppendOverwrites ==
    [][(/\ ~ Finished
        /\ Cur.kind = "append" /\ Cur.var = "modified_scheme"
        /\ pc' # pc /\ raised' = raised)
       => LET old == obj["modified_scheme"]
              new == obj'["modified_scheme"]
          IN  /\ old = OneWayShootingMoveScheme(tps_network, "2_way_from_1_way")
              /\ old.strat["shooting"].kind = "OneWayShooting"
              /\ new.strat["shooting"] = shooting_strategy
              /\ new.strat["shooting"].kind = "TwoWayShooting"
              /\ MoverGroups(new) = {"shooting"}
              /\ \A g \in Groups : new.strat[g].kind # "OneWayShooting"
              /\ \A g \in Groups \ {"shooting"} : new.strat[g] = old.strat[g]
              /\ new.organized = old.organized
              /\ new.name = old.name /\ new.network = old.network]_vars

\* C6 witness: modified_scheme holds the two-way strategy in group 'shooting'
AppendOverwritesWitness ==
    obj["modified_scheme"].strat["shooting"].kind = "TwoWayShooting"

\* ms, before the last append, was the one-way shooting scheme, and the
\* strategy appended is a two-way shooting strategy of another group
AppendedOtherGroup ==
    /\ ms_prev # NoScheme
    /\ ms_prev = OneWayShootingMoveScheme(ms_prev.network, ms_prev.name)
    /\ ms_last.kind = "TwoWayShooting"
    /\ ms_last.group # "shooting"

OneMoverSteps ==
    asked["scheme_0"] # NoScheme =>
       /\ TotalMovers(asked["scheme_0"]) = 1
       /\ NMovers(asked["scheme_0"], "shooting") = 1
       /\ \A w \in GroupWeights :
             LET n == n_steps_for_trials(asked["scheme_0"], "shooting", NTrials, w)
             IN  n[1] = NTrials * n[2]

\* C8 witness: n_steps_for_trials has been evaluated on scheme_0
OneMoverStepsWitness == asked["scheme_0"] # NoScheme

\* C9: the scheme n_steps_for_trials is evaluated on as retis_scheme holds
\* shooting, path-reversal and replica-exchange movers, and under every
\* weighting the steps NTrials trials of one shooting mover need are more
\* than NInterfaces times NTrials.
RetisSteps ==
    asked["retis_scheme"] # NoScheme =>
       /\ MoverGroups(asked["retis_scheme"]) = {"shooting", "pathreversal", "repex"}
       /\ NMovers(asked["retis_scheme"], "shooting") = NInterfaces
       /\ \A w \in GroupWeights :
             LET n == n_steps_for_trials(asked["retis_scheme"], "shooting", NTrials, w)
             IN  /\ n[1] > NInterfaces * NTrials * n[2]
                 /\ n[1] > NTrials * n[2]

\* C9 witness: n_steps_for_trials has been evaluated on the retis scheme
RetisStepsWitness == asked["retis_scheme"] # NoScheme

\* the equilibrate command of the retis scheme
EquilRetis == << "equilibrate", "parallel_setup.nc", "retis" >>

RunRetis == << "pathsampling", "retis_equil.nc", "" >>

\* C11: once the notebook has closed parallel_setup.nc it holds six schemes,
\* so a command on it without --scheme selects none; when the equilibration
\* of retis has run, retis_equil.nc holds one scheme, the one named retis,
\* which a command without --scheme selects; and the pathsampling run on
\* retis_equil.nc, given no --scheme, runs the scheme named retis.
SingleSchemeNeedsNoName ==
    /\ handles["parallel_setup"].state = "closed" =>
          /\ Cardinality(files["parallel_setup.nc"].schemes) = NInterfaces + 1
          /\ Selected("parallel_setup.nc", "") = {}
          /\ \A name \in ParallelSchemes :
                Cardinality(Selected("parallel_setup.nc", name)) = 1
    /\ cli[EquilRetis].state = "done" =>
          /\ Cardinality(files["retis_equil.nc"].schemes) = 1
          /\ Names("retis_equil.nc") = {"retis"}
          /\ Selected("retis_equil.nc", "") = files["retis_equil.nc"].schemes
          /\ files["retis_equil.nc"].schemes \subseteq files["parallel_setup.nc"].schemes
    /\ Started(RunRetis) => cli[RunRetis].scheme.name = "retis"
    /\ \A p \in DOMAIN cli : p[2] = "parallel_setup.nc" => p[3] # ""

\* C11 witness: the pathsampling run on retis_equil.nc has made its steps
SingleSchemeWitness == cli[RunRetis].state = "done"

\* the pathsampling runs that have made all their steps
DoneRuns == {p \in DOMAIN cli : p[1] = "pathsampling" /\ cli[p].state = "done"}

\* C12 as stated: in the output file of every pathsampling run that has made
\* its n steps, step 0 is the initial conditions, n steps follow, and each of
\* them is a shooting move.
StepsAllShooting ==
    \A p \in DoneRuns :
       LET steps == files[cli[p].out].steps
       IN  /\ Len(steps) = cli[p].n + 1
           /\ steps[1] = "initial_conditions"
           /\ \A k \in 2 .. Len(steps) : steps[k] \in ShootingGroups

\* C12: in the output file of every pathsampling run, step 0 is the initial
\* conditions and each later step is one move of a mover group of the run's
\* scheme; when the run has made its n steps, n steps follow step 0; when
\* the scheme's only movers are shooting movers (every scheme but retis) each
\* of them is a shooting move; and get_shooting_points, where the notebook
\* applies it, returns one point per step of the run.
StepsOneMoveEach ==
    /\ \A p \in DOMAIN cli :
          (p[1] = "pathsampling" /\ Started(p)) =>
             LET steps == files[cli[p].out].steps
             IN  /\ Len(steps) >= 1 /\ Len(steps) <= cli[p].n + 1
                 /\ steps[1] = "initial_conditions"
                 /\ \A k \in 2 .. Len(steps) : steps[k] \in MoverGroups(cli[p].scheme)
                 /\ MoverGroups(cli[p].scheme) \subseteq ShootingGroups =>
                       \A k \in 2 .. Len(steps) : steps[k] \in ShootingGroups
                 /\ cli[p].scheme.name # "retis" =>
                       MoverGroups(cli[p].scheme) = {"shooting"}
    /\ \A p \in DoneRuns : Len(files[cli[p].out].steps) = cli[p].n + 1
    /\ \A v \in DOMAIN points :
          points[v] >= 0 =>
             \E p \in DoneRuns :
                /\ cli[p].out = handles[v].file
                /\ points[v] = cli[p].n
                /\ points[v] >= 1

\* C12 witness: get_shooting_points has been applied to both result databases
\* of the shooting comparison
StepsOneMoveEachWitness == points["std_two_way"] >= 1 /\ points["biased_two_way"] >= 1

\* C13: for every TIS ensemble and every set of paths sampled in it, the
\* crossing probability is 1 at every value of the order parameter below the
\* ensemble's interface value, and at the interface value itself.
CrossingOneBelowInterface ==
    \A i \in AllEnsembles : \A x \in Lambdas :
       x <= lambda_i(i) =>
          /\ crossing_probability(samples[i], x)[2] > 0
          /\ crossing_probability(samples[i], x)[1] = crossing_probability(samples[i], x)[2]

\* C13 witness: an ensemble holds paths that reach different values, so that
\* its crossing probability is not 1 everywhere
CrossingOneWitness ==
    \E i \in AllEnsembles :
       /\ Len(samples[i]) >= 2
       /\ samples[i][1] # samples[i][2]
       /\ \E x \in Lambdas :
             crossing_probability(samples[i], x)[1] < crossing_probability(samples[i], x)[2]

\* the crossing probability of ensemble i is non-increasing in x
NonIncreasing(i) ==
    \A x, y \in Lambdas :
       x <= y => crossing_probability(samples[i], x)[1] >= crossing_probability(samples[i], y)[1]

ReadOnlyFiles == ResultFiles \cup {InputFile}

\* the notebook has closed the storage it wrote file f with
ClosedByNotebook(f) ==
    \E v \in StorageVars : handles[v] = [file |-> f, mode |-> "w", state |-> "closed"]

\* what C15 says of every state
LifecycleState ==
    /\ \A v \in StorageVars :
          /\ handles[v].mode = "w" => handles[v].file \in SetupFiles
          /\ handles[v].file \in ReadOnlyFiles => handles[v].mode = "r"
          /\ (Finished /\ handles[v].mode = "w") => handles[v].state = "closed"
    /\ \A f \in SetupFiles :
          /\ files[f].schemes # {} => files[f].tagged
          /\ ClosedByNotebook(f) => files[f].tagged /\ files[f].schemes # {}
          /\ writers[f] \subseteq {<< "notebook" >>}
    /\ \A p \in DOMAIN cli :
          (cli[p].state # "idle" /\ p[2] \in SetupFiles) => ClosedByNotebook(p[2])
    /\ \A f \in ReadOnlyFiles : << "notebook" >> \notin writers[f]
    /\ files[InputFile] = InputDatabase

\* what C15 says of every step
LifecycleStep ==
    /\ \A v \in StorageVars :
          /\ handles[v].state = "closed" => handles'[v] = handles[v]
          /\ (handles[v].state = "open" /\ handles[v].mode = "w") =>
                /\ handles'[v].file = handles[v].file
                /\ handles'[v].mode = "w"
    /\ \A f \in SetupFiles :
          /\ ClosedByNotebook(f) => files'[f] = files[f]
          /\ files[f].exists =>
                /\ files'[f].exists
                /\ files[f].tagged => files'[f].tagged
                /\ files[f].schemes \subseteq files'[f].schemes
          /\ files'[f].schemes # files[f].schemes => files[f].tagged

\* C15: a storage opened for writing is one of the two setup files; it is
\* created once, tagged with the initial conditions before any scheme is
\* saved in it, and closed once; after the close it is never reopened and
\* the file never changes; a command reads it only after the close; no
\* storage opened for writing is open when the notebook ends; and the input
\* database and the result databases are opened read-only and never written
\* by the notebook.
SetupLifecycle == [] LifecycleState /\ [][LifecycleStep]_vars

\* C15 witness: the notebook has ended with both setup files closed
SetupLifecycleWitness ==
    /\ Finished
    /\ ClosedByNotebook("shooting_setup.nc")
    /\ ClosedByNotebook("parallel_setup.nc")

\* the statement of the given line has been executed or raised, or skipped
\* because an earlier statement of its cell raised
Passed(line) ==
    \E k \in 1 .. Len(program) : program[k].stmt.line = line /\ k < pc

\* what C16 says of the names, and of the notebook as shipped up to the
\* schemes
NamesBoundShipped ==
    /\ (patched /\ ~ Finished) => Cur.reads \subseteq bound
    /\ (~ Finished /\ Cur.line = 82) =>
          /\ {"ToyPlot", "np"} \subseteq bound
          /\ ~ Passed(254)
    /\ ~ patched =>
          /\ {"beta", "modifier", "shooting_strategy"} \cap bound = {}
          /\ (~ Finished /\ Cur.line = 178) => Raises(Cur)
          /\ \A l \in {178, 195, 234} : Passed(l) => l \in raised

\* C16 as stated: every name a cell of the filled-in notebook reads has been
\* bound when the cell runs, np and ToyPlot by the %run before the notebook
\* imports numpy; as shipped beta is never bound, the RandomVelocities cell
\* raises, shooting_strategy is never bound, and the scheme built from it,
\* two_way_scheme, is never bound either.
NamesBoundNeverDefined ==
    /\ NamesBoundShipped
    /\ ~ patched => "two_way_scheme" \notin bound

\* C16: every name a cell of the filled-in notebook reads has been bound when
\* the cell runs, np and ToyPlot by the %run before the notebook imports
\* numpy; as shipped beta is never bound, the RandomVelocities cell raises,
\* shooting_strategy is never bound and no scheme ever holds it:
\* modified_scheme stays the one-way shooting scheme and two_way_scheme, once
\* bound by the first line of its cell, stays a scheme without strategies.
NamesBound ==
    /\ NamesBoundShipped
    /\ ~ patched =>
          /\ \A v \in SchemeVars : \A g \in Groups : obj[v].strat[g] # shooting_strategy
          /\ "modified_scheme" \in bound =>
                obj["modified_scheme"] = OneWayShootingMoveScheme(tps_network, "2_way_from_1_way")
          /\ "two_way_scheme" \in bound =>
                obj["two_way_scheme"] = MoveScheme(tps_network, "2_way")
          /\ Passed(232) => "two_way_scheme" \in bound

\* C16 witness: the notebook as shipped has been executed to its end, the
\* RandomVelocities cell raised, and two_way_scheme is bound
NamesBoundWitness ==
    /\ ~ patched /\ Finished
    /\ {178, 195, 234} \subseteq raised
    /\ "shooting_strategy" \notin bound
    /\ "two_way_scheme" \in bound
    /\ "xvals" \in bound

====
